---------------------------- MODULE Spec2Model ----------------------------
(***************************************************************************)
(* Model of services/node.go of plugin-dependency: the npm ("node")        *)
(* dependency service.                                                     *)
(*                                                                         *)
(*   SpecInstall  InstallDependencies / UninstallDependencies, one task    *)
(*                from the call to the return.                             *)
(*   SpecSearch   GetRepoList, the catalogue search against the registry   *)
(*                and the dependency collection.                           *)
(*   SpecList     GetDependencies, the listing of a node's installed set.  *)
(*   SpecStore    the replacement of a node's records in the dependency    *)
(*                collection, several replacements in flight.              *)
(***************************************************************************)
EXTENDS Naturals, Sequences, FiniteSets, TLC

VARIABLES
    \* ---- InstallDependencies / UninstallDependencies
    kind,        \* "none" | "install" | "uninstall": the function called
    ipc,         \* position in the function
    params,      \* entity.InstallParams / entity.UninstallParams
    args,        \* the local args []string
    starts,      \* number of calls of cmd.Start
    spawned,     \* cmd.Start returned nil: a child process exists
    exitCode,    \* exit code of the child, once waited for
    err,         \* the error the function returned
    childLog,    \* lines the child wrote to the task log
    refreshes,   \* inventory refreshes triggered by the function
    \* ---- GetRepoList
    spc,         \* position in the handler
    query,       \* c.Query("query")
    registryCalls, \* calls of reqSession.Get
    storeCalls,  \* calls of colD.Aggregate
    npmRes,      \* entity.NpmResponseList
    deps,        \* []models.Dependency
    depNames,    \* []string
    depsResults, \* []entity.DependencyResult
    response,    \* what the handler wrote to the gin context
    \* ---- the dependency collection (colD)
    store,
    \* ---- GetDependencies
    lpc,         \* position in the function
    listCmd,     \* params.Cmd
    proc,        \* what the list process did: exit code and output
    listDeps,    \* the returned deps
    listErr,     \* the returned err
    \* ---- replacement of a node's records in the collection
    calls,       \* per call: stage, node and the records it writes
    lock,        \* per node: the call replacing its records, or 0
    order        \* the calls in the order they committed

installVars == <<kind, ipc, params, args, starts, spawned, exitCode, err,
                 childLog, refreshes>>
searchVars  == <<spc, query, registryCalls, storeCalls, npmRes, deps,
                 depNames, depsResults, response>>
listVars    == <<lpc, listCmd, proc, listDeps, listErr>>
updateVars  == <<calls, lock, order>>
vars == <<installVars, searchVars, store, listVars, updateVars>>
\* what each part of the service leaves alone
notInstall == <<searchVars, store, listVars, updateVars>>
notSearch  == <<installVars, store, listVars, updateVars>>
notList    == <<installVars, searchVars, store, updateVars>>
notUpdate  == <<installVars, searchVars, listVars>>

\* ------------------------------------------------------------------ bounds
MaxNames   == 2   \* longest params.Names
MaxLog     == 1   \* most lines a child writes to the task log
MaxExit    == 2   \* largest exit code of a child
MaxResults == 2   \* most results in a registry response
MaxTotal   == 2   \* largest total a registry response reports
MaxCalls   == 2   \* most record replacements in a behaviour

\* ------------------------------------------------------------------ values
DependencyTypeNode == "node"
OtherType          == "python"
PackageNames == {"lodash", "express"}
Proxies      == {"", "https://registry.npmmirror.com"}
Cmds         == {"", "npm"}

RECURSIVE SeqsUpTo(_, _)
SeqsUpTo(S, n) ==
    IF n = 0 THEN {<<>>}
    ELSE LET shorter == SeqsUpTo(S, n - 1)
         IN  shorter \cup {Append(s, x) : s \in {t \in shorter : Len(t) = n - 1}, x \in S}

Range(s) == {s[i] : i \in 1..Len(s)}

InstallParams ==
    [Cmd : Cmds, Names : SeqsUpTo(PackageNames, MaxNames), Proxy : Proxies,
     Upgrade : BOOLEAN, UseConfig : BOOLEAN]
UninstallParams ==
    [Cmd : Cmds, Names : SeqsUpTo(PackageNames, MaxNames)]
NoParams == [Cmd |-> "", Names |-> <<>>]

\* --------------------------------------------- InstallDependencies: args
\* lines 190-198: the loop over params.Names, from position i on
RECURSIVE AppendNames(_, _, _, _)
AppendNames(acc, names, upgrade, i) ==
    IF i > Len(names) THEN acc
    ELSE LET depName == IF upgrade THEN names[i] \o "@latest" ELSE names[i]
         IN  AppendNames(Append(acc, depName), names, upgrade, i + 1)

BuildInstallArgs_AlwaysNames(p) ==
    LET a2 == Append(Append(<<>>, "install"), "-g")
        a3 == IF p.Proxy # "" THEN Append(Append(a2, "--registry"), p.Proxy) ELSE a2
    IN  AppendNames(a3, p.Names, p.Upgrade, 1)

BuildInstallArgs_NamesFirst(p) ==
    LET a2 == Append(Append(<<>>, "install"), "-g")
        a3 == IF p.UseConfig THEN a2 ELSE AppendNames(a2, p.Names, p.Upgrade, 1)
    IN  IF p.Proxy # "" THEN Append(Append(a3, "--registry"), p.Proxy) ELSE a3

\* lines 172-199
BuildInstallArgs(p) ==
    LET a2 == Append(Append(<<>>, "install"), "-g")
        a3 == IF p.Proxy # "" THEN Append(Append(a2, "--registry"), p.Proxy) ELSE a2
    IN  IF p.UseConfig THEN a3 ELSE AppendNames(a3, p.Names, p.Upgrade, 1)

\* lines 221-231
BuildUninstallArgs(p) ==
    AppendNames(Append(Append(<<>>, "uninstall"), "-g"), p.Names, FALSE, 1)

\* -------------------------------------------- os/exec as the code uses it
\* cmd.Start on exec.Command(name, ...): an empty name is never found, any
\* other name is found or not
StartOutcomes(name) == IF name = "" THEN {FALSE} ELSE BOOLEAN

WaitError_IgnoresExit(code) == "nil"

\* cmd.Wait: nil when the child exited with code 0, an *ExitError otherwise
WaitError(code) == IF code = 0 THEN "nil" ELSE "exit"

\* ------------------------------------------------ InstallDependencies
InstallInit ==
    /\ kind = "none" /\ ipc = "idle" /\ params = NoParams /\ args = <<>>
    /\ starts = 0 /\ spawned = FALSE /\ exitCode = 0 /\ err = "nil"
    /\ childLog = 0 /\ refreshes = 0

\* the call: the caller dispatched the task
InstallCall ==
    /\ ipc = "idle"
    /\ \E p \in InstallParams : params' = p
    /\ kind' = "install" /\ ipc' = "entered"
    /\ UNCHANGED <<args, starts, spawned, exitCode, err, childLog, refreshes>>
    /\ UNCHANGED notInstall

\* lines 172-205: the arguments, exec.Command, _configureLogging
InstallCommand ==
    /\ kind = "install" /\ ipc = "entered"
    /\ args' = BuildInstallArgs(params)
    /\ ipc' = "command"
    /\ UNCHANGED <<kind, params, starts, spawned, exitCode, err, childLog, refreshes>>
    /\ UNCHANGED notInstall

\* lines 207-210 and 239-242
StartStep ==
    /\ ipc = "command"
    /\ starts' = starts + 1
    /\ \E ok \in StartOutcomes(params.Cmd) :
         IF ok THEN /\ spawned' = TRUE /\ ipc' = "running" /\ err' = err
               ELSE /\ spawned' = FALSE /\ ipc' = "returned" /\ err' = "spawn"
    /\ UNCHANGED <<kind, params, args, exitCode, childLog, refreshes>>

\* lines 212-217 and 244-249
WaitStep ==
    /\ ipc = "running"
    /\ \E code \in 0..MaxExit :
         /\ exitCode' = code
         /\ err' = WaitError(code)
    /\ ipc' = "returned"
    /\ UNCHANGED <<kind, params, args, starts, spawned, childLog, refreshes>>

InstallStart == kind = "install" /\ StartStep /\ UNCHANGED notInstall
InstallWait  == kind = "install" /\ WaitStep /\ UNCHANGED notInstall

\* the running child writes a line to the log _configureLogging attached
ChildOutput ==
    /\ ipc = "running" /\ childLog < MaxLog
    /\ childLog' = childLog + 1
    /\ UNCHANGED <<kind, ipc, params, args, starts, spawned, exitCode, err, refreshes>>
    /\ UNCHANGED notInstall

\* ------------------------------------------------ UninstallDependencies
UninstallCall ==
    /\ ipc = "idle"
    /\ \E p \in UninstallParams : params' = p
    /\ kind' = "uninstall" /\ ipc' = "entered"
    /\ UNCHANGED <<args, starts, spawned, exitCode, err, childLog, refreshes>>
    /\ UNCHANGED notInstall

\* lines 221-237
UninstallCommand ==
    /\ kind = "uninstall" /\ ipc = "entered"
    /\ args' = BuildUninstallArgs(params)
    /\ ipc' = "command"
    /\ UNCHANGED <<kind, params, starts, spawned, exitCode, err, childLog, refreshes>>
    /\ UNCHANGED notInstall

UninstallStart == kind = "uninstall" /\ StartStep /\ UNCHANGED notInstall
UninstallWait  == kind = "uninstall" /\ WaitStep /\ UNCHANGED notInstall

\* the task's state, read off the function's position and result
TaskState ==
    CASE ipc = "idle" -> "None"
      [] ipc \in {"entered", "command"} -> "Dispatched"
      [] ipc = "running" -> "Running"
      [] ipc = "returned" /\ err = "nil" -> "Succeeded"
      [] OTHER -> "Failed"

\* ---------------------------------------------------------- the collection
Nodes    == {"n1", "n2"}
Versions == {"4.17.20", "4.17.21"}

Record(n, N, t, v) == [node_id |-> n, name |-> N, type |-> t, version |-> v]

\* one document per node, package and type
OneRowPerKey(s) ==
    \A r1, r2 \in s :
        (r1.node_id = r2.node_id /\ r1.name = r2.name /\ r1.type = r2.type) => r1 = r2

NodeRecords  == {Record(n, N, DependencyTypeNode, v) : n \in Nodes, N \in PackageNames, v \in Versions}
OtherRecords == {Record(n, "lodash", OtherType, "4.17.20") : n \in Nodes}
Stores == {s \in SUBSET (NodeRecords \cup OtherRecords) : OneRowPerKey(s)}

\* lines 107-118, $group: one entry per name among the matched documents;
\* $push collects node_id once per document (NodeIds maps a node id to the
\* number of times it was pushed), $addToSet collects the distinct versions
Group(matched) ==
    {[Name     |-> N,
      NodeIds  |-> [n \in {r.node_id : r \in {m \in matched : m.name = N}} |->
                       Cardinality({r \in matched : r.name = N /\ r.node_id = n})],
      Versions |-> {r.version : r \in {m \in matched : m.name = N}}]
     : N \in {r.name : r \in matched}}

Aggregate_AnyType(s, names) ==
    Group({r \in s : r.name \in Range(names)})

\* lines 96-127: the pipeline $match, $group, $project on the collection
Aggregate(s, names) ==
    Group({r \in s : r.type = DependencyTypeNode /\ r.name \in Range(names)})

\* ------------------------------------------------------------ GetRepoList
Queries  == {"", "lodash"}
Packages == {[Name |-> "lodash", Version |-> "4.17.21"],
             [Name |-> "express", Version |-> "4.18.2"],
             [Name |-> "left-pad", Version |-> "1.3.0"]}
NpmResponses == [Total : 0..MaxTotal, Results : SeqsUpTo(Packages, MaxResults)]

NoResult   == [Name |-> "", NodeIds |-> <<>>, Versions |-> {}]
NoNpmRes   == [Total |-> 0, Results |-> <<>>]
NoResponse == [status |-> "none", data |-> <<>>, total |-> 0]

QueryValid_Always(q) == TRUE

\* lines 37-41
QueryValid(q) == q # ""

\* lines 81-90
BuildDeps(results) ==
    [i \in 1..Len(results) |->
        [Name |-> results[i].Name, LatestVersion |-> results[i].Version, Result |-> NoResult]]
BuildDepNames(results) == [i \in 1..Len(results) |-> results[i].Name]

MergeResults_CopyAssign(ds, drs) == ds

\* lines 133-145: index the aggregation by name, attach by name
MergeResults(ds, drs) ==
    [i \in 1..Len(ds) |->
        IF \E dr \in drs : dr.Name = ds[i].Name
        THEN [ds[i] EXCEPT !.Result = CHOOSE dr \in drs : dr.Name = ds[i].Name]
        ELSE ds[i]]

SearchInit ==
    /\ spc = "idle" /\ query = "" /\ registryCalls = 0 /\ storeCalls = 0
    /\ npmRes = NoNpmRes /\ deps = <<>> /\ depNames = <<>> /\ depsResults = {}
    /\ response = NoResponse

\* lines 33-35
SearchCall ==
    /\ spc = "idle"
    /\ \E q \in Queries : query' = q
    /\ spc' = "validate"
    /\ UNCHANGED <<registryCalls, storeCalls, npmRes, deps, depNames, depsResults, response>>
    /\ UNCHANGED notSearch

\* lines 37-41
SearchValidate ==
    /\ spc = "validate"
    /\ IF QueryValid(query)
       THEN spc' = "request" /\ response' = response
       ELSE spc' = "done" /\ response' = [NoResponse EXCEPT !.status = "BadRequest"]
    /\ UNCHANGED <<query, registryCalls, storeCalls, npmRes, deps, depNames, depsResults>>
    /\ UNCHANGED notSearch

\* lines 43-65: the request fails
SearchRequestFails ==
    /\ spc = "request"
    /\ registryCalls' = registryCalls + 1
    /\ \E withBody \in BOOLEAN :
         response' = [NoResponse EXCEPT !.status =
                         IF withBody THEN "UpstreamStatus" ELSE "InternalServerError"]
    /\ spc' = "done"
    /\ UNCHANGED <<query, storeCalls, npmRes, deps, depNames, depsResults>>
    /\ UNCHANGED notSearch

\* lines 43-56 and 67-72: the response is not the expected JSON
SearchResponseUnparseable ==
    /\ spc = "request"
    /\ registryCalls' = registryCalls + 1
    /\ response' = [NoResponse EXCEPT !.status = "InternalServerError"]
    /\ spc' = "done"
    /\ UNCHANGED <<query, storeCalls, npmRes, deps, depNames, depsResults>>
    /\ UNCHANGED notSearch

\* lines 43-56 and 67-93: the response is read; no results, or the candidates
SearchRequest ==
    /\ spc = "request"
    /\ registryCalls' = registryCalls + 1
    /\ \E res \in NpmResponses :
         /\ npmRes' = res
         /\ IF res.Total = 0
            THEN /\ response' = [NoResponse EXCEPT !.status = "OK"]
                 /\ spc' = "done"
                 /\ UNCHANGED <<deps, depNames>>
            ELSE /\ deps' = BuildDeps(res.Results)
                 /\ depNames' = BuildDepNames(res.Results)
                 /\ spc' = "aggregate"
                 /\ response' = response
    /\ UNCHANGED <<query, storeCalls, depsResults>>
    /\ UNCHANGED notSearch

\* lines 95-131: the aggregation fails
SearchAggregateFails ==
    /\ spc = "aggregate"
    /\ storeCalls' = storeCalls + 1
    /\ response' = [NoResponse EXCEPT !.status = "InternalServerError"]
    /\ spc' = "done"
    /\ UNCHANGED <<query, registryCalls, npmRes, deps, depNames, depsResults>>
    /\ UNCHANGED notSearch

\* lines 95-147
SearchAggregate ==
    /\ spc = "aggregate"
    /\ storeCalls' = storeCalls + 1
    /\ depsResults' = Aggregate(store, depNames)
    /\ deps' = MergeResults(deps, depsResults')
    /\ response' = [status |-> "OK", data |-> deps', total |-> npmRes.Total]
    /\ spc' = "done"
    /\ UNCHANGED <<query, registryCalls, npmRes, depNames>>
    /\ UNCHANGED notSearch

\* -------------------------------------------------------- GetDependencies
ListNames == PackageNames \cup {"npm"}
\* what the manager prints: json says whether it is a JSON document,
\* dependencies is the "dependencies" object of the document
ListOutputs ==
    {[json |-> FALSE, dependencies |-> <<>>]} \cup
    {[json |-> TRUE, dependencies |-> m] : m \in UNION {[S -> Versions] : S \in SUBSET ListNames}}
ProcOutcomes == [exit : 0..MaxExit, out : ListOutputs]
NoProc == [exit |-> 0, out |-> [json |-> FALSE, dependencies |-> <<>>]]

\* every order in which a range over the map may visit its keys
Orders(S) == {o \in [1..Cardinality(S) -> S] : \A i, j \in DOMAIN o : o[i] = o[j] => i = j}

\* lines 160-167: one Dependency per key of res.Dependencies
DepsOf(m) ==
    {[i \in DOMAIN o |-> [Name |-> o[i], Version |-> m[o[i]], Type |-> DependencyTypeNode]]
     : o \in Orders(DOMAIN m)}

ParsedDeps_ExitIgnored(p) ==
    IF ~p.out.json THEN {[deps |-> <<>>, err |-> "json"]}
    ELSE {[deps |-> d, err |-> "nil"] : d \in DepsOf(p.out.dependencies)}

\* lines 152-168: the results GetDependencies may return for a process outcome
ParsedDeps(p) ==
    IF p.exit # 0 THEN {[deps |-> <<>>, err |-> "exit"]}
    ELSE IF ~p.out.json THEN {[deps |-> <<>>, err |-> "json"]}
    ELSE {[deps |-> d, err |-> "nil"] : d \in DepsOf(p.out.dependencies)}

ListInit ==
    /\ lpc = "idle" /\ listCmd = "" /\ proc = NoProc /\ listDeps = <<>> /\ listErr = "nil"

\* lines 150-151
ListCall ==
    /\ lpc = "idle"
    /\ \E c \in Cmds : listCmd' = c
    /\ lpc' = "command"
    /\ UNCHANGED <<proc, listDeps, listErr>>
    /\ UNCHANGED notList

\* lines 152-155: the process cannot be started
ListSpawnFails ==
    /\ lpc = "command"
    /\ FALSE \in StartOutcomes(listCmd)
    /\ listErr' = "spawn" /\ listDeps' = <<>>
    /\ lpc' = "returned"
    /\ UNCHANGED <<listCmd, proc>>
    /\ UNCHANGED notList

\* lines 152-168: the process ran
ListRun ==
    /\ lpc = "command"
    /\ TRUE \in StartOutcomes(listCmd)
    /\ \E p \in ProcOutcomes :
         /\ proc' = p
         /\ \E r \in ParsedDeps(p) : listDeps' = r.deps /\ listErr' = r.err
    /\ lpc' = "returned"
    /\ UNCHANGED listCmd
    /\ UNCHANGED notList

\* ------------------------------------- replacing a node's records (update)
RecordMaps == UNION {[S -> Versions] : S \in SUBSET PackageNames}
InitialStore == {Record("n2", "lodash", DependencyTypeNode, "4.17.20"),
                 Record("n1", "lodash", OtherType, "4.17.20")}

KeyRecords(s, n, t) == {r \in s : r.node_id = n /\ r.type = t}
RecordsOf(n, t, m) == {Record(n, N, t, m[N]) : N \in DOMAIN m}

ReplaceRecords_NoDelete(s, n, t, m) == s \cup RecordsOf(n, t, m)

\* all records of (n, t) replaced by the given ones
ReplaceRecords(s, n, t, m) == (s \ KeyRecords(s, n, t)) \cup RecordsOf(n, t, m)

NoCall == [stage |-> "idle", node |-> "n1", recs |-> <<>>]

UpdateInit ==
    /\ calls = [c \in 1..MaxCalls |-> NoCall]
    /\ lock = [n \in Nodes |-> 0]
    /\ order = <<>>

\* a node reports its installed set
SaveCall(c) ==
    /\ calls[c].stage = "idle"
    /\ \E n \in Nodes, m \in RecordMaps :
         calls' = [calls EXCEPT ![c] = [stage |-> "called", node |-> n, recs |-> m]]
    /\ UNCHANGED <<store, lock, order>>
    /\ UNCHANGED notUpdate

\* writes of one (node, type) are serialized
SaveBegin(c) ==
    /\ calls[c].stage = "called"
    /\ lock[calls[c].node] = 0
    /\ lock' = [lock EXCEPT ![calls[c].node] = c]
    /\ calls' = [calls EXCEPT ![c].stage = "saving"]
    /\ UNCHANGED <<store, order>>
    /\ UNCHANGED notUpdate

\* the replacement becomes visible to readers in one step
SaveCommit(c) ==
    /\ calls[c].stage = "saving"
    /\ store' = ReplaceRecords(store, calls[c].node, DependencyTypeNode, calls[c].recs)
    /\ lock' = [lock EXCEPT ![calls[c].node] = 0]
    /\ order' = Append(order, c)
    /\ calls' = [calls EXCEPT ![c].stage = "done"]
    /\ UNCHANGED notUpdate

\* ---------------------------------------------------------- specifications
InitInstall == InstallInit /\ SearchInit /\ ListInit /\ UpdateInit /\ store = {}

NextInstall ==
    \/ InstallCall \/ InstallCommand \/ InstallStart \/ InstallWait
    \/ UninstallCall \/ UninstallCommand \/ UninstallStart \/ UninstallWait
    \/ ChildOutput

SpecInstall == InitInstall /\ [][NextInstall]_vars

InitSearch == InstallInit /\ SearchInit /\ ListInit /\ UpdateInit /\ store \in Stores

NextSearch ==
    \/ SearchCall \/ SearchValidate \/ SearchRequestFails \/ SearchResponseUnparseable
    \/ SearchRequest \/ SearchAggregateFails \/ SearchAggregate

SpecSearch == InitSearch /\ [][NextSearch]_vars

InitList == InstallInit /\ SearchInit /\ ListInit /\ UpdateInit /\ store = {}

NextList == ListCall \/ ListSpawnFails \/ ListRun

SpecList == InitList /\ [][NextList]_vars

InitStore == InstallInit /\ SearchInit /\ ListInit /\ UpdateInit /\ store = InitialStore

NextStore == \E c \in 1..MaxCalls : SaveCall(c) \/ SaveBegin(c) \/ SaveCommit(c)

SpecStore == InitStore /\ [][NextStore]_vars

\* ------------------------------------------------------------------ claims
RegistryPart(p) == IF p.Proxy # "" THEN <<"--registry", p.Proxy>> ELSE <<>>
NamePart(p) ==
    [i \in 1..Len(p.Names) |->
        IF p.Upgrade THEN p.Names[i] \o "@latest" ELSE p.Names[i]]
ArgsBuilt == kind = "install" /\ ipc \in {"command", "running", "returned"}

\* C1: without UseConfig the install arguments are exactly "install", "-g",
\* then "--registry" and the proxy iff the proxy is non-empty, then one
\* argument per name in input order, suffixed "@latest" iff Upgrade.
C1_InstallArgsExact ==
    (ArgsBuilt /\ ~params.UseConfig) =>
        args = <<"install", "-g">> \o RegistryPart(params) \o NamePart(params)

C1_Witness ==
    /\ ArgsBuilt /\ ~params.UseConfig /\ params.Upgrade /\ params.Proxy # ""
    /\ Len(params.Names) = 2 /\ params.Names[1] # params.Names[2]
    /\ ipc = "running"

Terminal(st) == st \in {"Succeeded", "Failed"}
TaskMoves ==
    {<<"None", "Dispatched">>, <<"Dispatched", "Dispatched">>,
     <<"Dispatched", "Running">>, <<"Dispatched", "Failed">>,
     <<"Running", "Running">>, <<"Running", "Succeeded">>, <<"Running", "Failed">>}

\* C5: an install or uninstall task moves only along Dispatched -> Running ->
\* {Succeeded, Failed}; the process is started at most once; a spawn failure
\* or a non-zero exit ends it Failed with an error returned, exit code 0 ends
\* it Succeeded; nothing changes once it is Succeeded or Failed.
C5_TaskLifecycle ==
    [][/\ <<TaskState, TaskState'>> \in TaskMoves
       /\ ~Terminal(TaskState)
       /\ starts' <= 1
       /\ (TaskState' = "Running") => (starts' = 1 /\ spawned')
       /\ (TaskState = "Dispatched" /\ TaskState' = "Failed") =>
              (~spawned' /\ err' = "spawn")
       /\ (TaskState = "Running" /\ TaskState' = "Failed") =>
              (exitCode' # 0 /\ err' = "exit")
       /\ (TaskState' = "Succeeded") => (spawned' /\ exitCode' = 0 /\ err' = "nil")
       /\ (ipc' = "returned" /\ spawned' /\ exitCode' = 0) => TaskState' = "Succeeded"
       /\ (ipc' = "returned" /\ (~spawned' \/ exitCode' # 0)) =>
              (TaskState' = "Failed" /\ err' # "nil")
      ]_vars

C5_Witness ==
    /\ kind = "uninstall" /\ ipc = "returned" /\ spawned /\ exitCode = 1
    /\ err = "exit" /\ starts = 1

\* C6: an install whose process exited successfully has triggered an
\* inventory refresh by the time it finishes; a failed install has not.
C6_RefreshAfterInstall ==
    (kind = "install" /\ ipc = "returned") =>
        IF err = "nil" THEN refreshes >= 1 ELSE refreshes = 0

\* C10: install with an empty command path fails with InvalidArgument before
\* the arguments are used to create or start a process; the task never runs
\* and no child writes to the task log.
C10_EmptyCmdInvalidArgument ==
    (kind = "install" /\ params.Cmd = "") =>
        /\ ipc \in {"entered", "returned"}
        /\ starts = 0 /\ ~spawned /\ childLog = 0
        /\ (ipc = "returned") => (err = "InvalidArgument")

Answered == spc = "done" /\ response.status = "OK" /\ npmRes.Total > 0

\* C2: for a non-empty query whose registry search reports total > 0, the
\* answer holds one Dependency per registry result, in the registry's order,
\* with that result's name and latest version; a Dependency carries the
\* aggregation entry of its name iff the aggregation returned one, and no
\* result otherwise; the total is the registry's.
C2_SearchMerge ==
    Answered =>
        /\ query # ""
        /\ Len(response.data) = Len(npmRes.Results)
        /\ \A i \in 1..Len(npmRes.Results) :
             /\ response.data[i].Name = npmRes.Results[i].Name
             /\ response.data[i].LatestVersion = npmRes.Results[i].Version
             /\ \A dr \in depsResults :
                  dr.Name = response.data[i].Name => response.data[i].Result = dr
             /\ (\A dr \in depsResults : dr.Name # response.data[i].Name) =>
                  response.data[i].Result = NoResult
        /\ response.total = npmRes.Total

C2_Witness ==
    /\ Answered /\ Len(response.data) = 2
    /\ response.data[1].Name = "left-pad" /\ response.data[1].Result = NoResult
    /\ response.data[2].Name = "lodash" /\ response.data[2].Result # NoResult
    /\ response.total = 1

\* C3: a search with an empty query ends in a bad-request answer with no call
\* of the registry and no call of the collection.
C3_EmptyQueryNoCalls ==
    (query = "" /\ spc # "idle") =>
        /\ registryCalls = 0 /\ storeCalls = 0
        /\ spc \in {"validate", "done"}
        /\ (spc = "done") => (response.status = "BadRequest")

C3_Witness == query = "" /\ spc = "done" /\ response.status = "BadRequest"

Matching(N) == {r \in store : r.name = N /\ r.type = DependencyTypeNode}
SearchNames == {pk.Name : pk \in Packages}

\* C4: the aggregation returns an entry for a name iff the name was requested
\* and a record of type node exists for it; the entry's node ids are exactly
\* the nodes with such a record, each once, and its versions exactly the
\* distinct versions of those records; neither is empty.
C4_AggregateByName ==
    Answered =>
        /\ \A N \in SearchNames \cup PackageNames :
             (\E dr \in depsResults : dr.Name = N) <=>
                 (N \in Range(depNames) /\ Matching(N) # {})
        /\ \A dr \in depsResults :
             /\ dr.Name \in Range(depNames)
             /\ DOMAIN dr.NodeIds = {r.node_id : r \in Matching(dr.Name)}
             /\ \A n \in DOMAIN dr.NodeIds : dr.NodeIds[n] = 1
             /\ dr.Versions = {r.version : r \in Matching(dr.Name)}
             /\ DOMAIN dr.NodeIds # {} /\ dr.Versions # {}
        /\ \A d1, d2 \in depsResults : d1.Name = d2.Name => d1 = d2

C4_Witness ==
    /\ Answered
    /\ depNames = <<"lodash", "express">>
    /\ \E dr \in depsResults :
         /\ dr.Name = "lodash" /\ DOMAIN dr.NodeIds = {"n1"}
         /\ Record("n2", "lodash", OtherType, "4.17.20") \in store
    /\ \A dr \in depsResults : dr.Name # "express"

\* C9: GetDependencies returns an error and no list when the list process
\* exits non-zero or its output does not parse; otherwise it returns one
\* entry per package of the output, with its version and the node type.
C9_ListAllOrNothing ==
    (lpc = "returned") =>
        /\ (listErr # "nil") => (listDeps = <<>>)
        /\ (listErr # "spawn") =>
             IF proc.exit # 0 \/ ~proc.out.json
             THEN listErr # "nil"
             ELSE /\ listErr = "nil"
                  /\ Len(listDeps) = Cardinality(DOMAIN proc.out.dependencies)
                  /\ {listDeps[i].Name : i \in 1..Len(listDeps)} = DOMAIN proc.out.dependencies
                  /\ \A i \in 1..Len(listDeps) :
                       /\ listDeps[i].Version = proc.out.dependencies[listDeps[i].Name]
                       /\ listDeps[i].Type = DependencyTypeNode

C9_Witness ==
    /\ lpc = "returned" /\ listErr = "exit" /\ listDeps = <<>>
    /\ proc.exit = 1 /\ proc.out.json
    /\ DOMAIN proc.out.dependencies = ListNames

KeyNow(n) == KeyRecords(store, n, DependencyTypeNode)
Written(n) ==
    {RecordsOf(n, DependencyTypeNode, calls[c].recs) :
        c \in {d \in 1..MaxCalls : calls[d].stage \in {"saving", "done"} /\ calls[d].node = n}}
Before(n) == KeyRecords(InitialStore, n, DependencyTypeNode)
Committed(n) == SelectSeq(order, LAMBDA c : calls[c].node = n)
AllNames == <<"lodash", "express">>

\* C7: whatever the interleaving of the replacements of one node's records,
\* the records of the node are those of exactly one call or those before any
\* call, an aggregation shows the node under exactly the names of that one
\* record set, and once calls have committed the node holds the records of the
\* last one.
C7_NoTornRecordSet ==
    \A n \in Nodes :
        /\ KeyNow(n) \in Written(n) \cup {Before(n)}
        /\ \E S \in Written(n) \cup {Before(n)} :
             \A N \in PackageNames :
                 LET shown == \E dr \in Aggregate(store, AllNames) :
                                 dr.Name = N /\ n \in DOMAIN dr.NodeIds
                 IN  /\ shown <=> (\E r \in S : r.name = N)
                     /\ \A r \in S : r.name = N =>
                          \E dr \in Aggregate(store, AllNames) :
                              /\ dr.Name = N /\ r.version \in dr.Versions
                              /\ dr.NodeIds[n] = 1
        /\ IF Committed(n) = <<>>
           THEN KeyNow(n) = Before(n)
           ELSE KeyNow(n) =
                    RecordsOf(n, DependencyTypeNode, calls[Committed(n)[Len(Committed(n))]].recs)

C7_Witness ==
    /\ order = <<2, 1>>
    /\ calls[1].node = "n2" /\ calls[2].node = "n2"
    /\ calls[1].recs = [N \in {"express"} |-> "4.17.21"]
    /\ DOMAIN calls[2].recs = {"lodash", "express"}

=============================================================================
